---------------------------- MODULE Spec2Model ----------------------------
(***************************************************************************)
(* A model of jsonize/utils/json.py: the JSONPath class (parsing, string   *)
(* rendering, split, append), the tree access engine                       *)
(* (get_item_from_json_path, write_item_in_path and its helpers) and the   *)
(* type inference (infer_json_type).                                       *)
(*                                                                         *)
(* Python values are modelled as follows.                                  *)
(*   str      a sequence of one-character strings, <<"$", ".", "a">>       *)
(*   None (as an optional int)   <<>>, an int n being <<n>>                *)
(*   a path segment   [k |-> "str", s |-> text]                            *)
(*                    [k |-> "int", i |-> n]                               *)
(*                    [k |-> "slice", start, stop, step |-> optional int]  *)
(*   a JSON value     [t |-> "none"], [t |-> "bool", b |-> ..],            *)
(*                    [t |-> "int", n |-> ..], [t |-> "float", ..],        *)
(*                    [t |-> "str", s |-> text],                           *)
(*                    [t |-> "dict", d |-> function from text],            *)
(*                    [t |-> "list", l |-> sequence]                       *)
(*   an outcome       [ok |-> TRUE, val |-> v] for a normal return,        *)
(*                    [ok |-> FALSE, exc |-> kind, args |-> sequence] for  *)
(*                    a raised exception with its args tuple (only the     *)
(*                    JSONPath arguments are kept, the message is "msg")   *)
(***************************************************************************)
EXTENDS Integers, Sequences, FiniteSets, TLC

Ok(v) == [ok |-> TRUE, val |-> v]

Raise(kind, a) == [ok |-> FALSE, exc |-> kind, args |-> a]

Msg == "msg"

(***************************************************************************)
(* Text helpers: str.split, str.index, int(), f'{n}', str.lower            *)
(***************************************************************************)
Digits == <<"0", "1", "2", "3", "4", "5", "6", "7", "8", "9">>

DigitChars == {Digits[d] : d \in 1..10}

DigitVal(c) == (CHOOSE d \in 1..10 : Digits[d] = c) - 1

RECURSIVE NatOfDigits(_)
NatOfDigits(ds) ==
    IF ds = <<>> THEN 0
    ELSE NatOfDigits(SubSeq(ds, 1, Len(ds) - 1)) * 10 + DigitVal(ds[Len(ds)])

\* int(''.join(tokens)) for the tokens of Optional('-') + Word(nums)
IntOfText(s) ==
    IF s[1] = "-" THEN 0 - NatOfDigits(Tail(s)) ELSE NatOfDigits(s)

RECURSIVE DigitsOfNat(_)
DigitsOfNat(n) ==
    IF n < 10 THEN <<Digits[n + 1]>>
    ELSE DigitsOfNat(n \div 10) \o <<Digits[(n % 10) + 1]>>

\* f'{n}' for an int n
TextOfInt(n) == IF n < 0 THEN <<"-">> \o DigitsOfNat(0 - n) ELSE DigitsOfNat(n)

\* element.index(c): the first position of c in s, 0 when index() raises ValueError
IndexOf(s, c) ==
    IF \E i \in 1..Len(s) : s[i] = c
    THEN CHOOSE i \in 1..Len(s) : s[i] = c /\ \A j \in 1..(i - 1) : s[j] # c
    ELSE 0

\* json_path_string.split('.')
RECURSIVE SplitDots(_)
RECURSIVE SplitAt(_, _)
SplitAt(s, i) ==
    IF i = 0 THEN <<s>>
    ELSE <<SubSeq(s, 1, i - 1)>> \o SplitDots(SubSeq(s, i + 1, Len(s)))

SplitDots(s) == SplitAt(s, IndexOf(s, "."))

(***************************************************************************)
(* Path segments                                                           *)
(***************************************************************************)
NoneInt == <<>>

StrSeg(s) == [k |-> "str", s |-> s]

IntSeg(i) == [k |-> "int", i |-> i]

SliceSeg(a, b, c) == [k |-> "slice", start |-> a, stop |-> b, step |-> c]

IsStr(e) == e.k = "str"

IsInt(e) == e.k = "int"

IsSlice(e) == e.k = "slice"

Dollar == <<"$">>

At == <<"@">>

\* bool(x) of an optional int: None and 0 are falsy
Truthy(o) == o # NoneInt /\ o[1] # 0

(***************************************************************************)
(* JSONPath._parse_slices: the pyparsing grammar                           *)
(*   "[" [ ["-"] digits ] [ ":" ["-"] digits [ ":" ["-"] digits ] ] "]"    *)
(* repeated zero or more times from the start of the substring; what       *)
(* follows the last bracket that matches is ignored (parseString without   *)
(* parseAll).  The texts of the model hold no white space.                 *)
(***************************************************************************)
CharAt(s, i) == IF i \in 1..Len(s) THEN s[i] ELSE ""

RECURSIVE SpanDigits(_, _)
SpanDigits(s, i) ==
    IF CharAt(s, i) \in DigitChars THEN SpanDigits(s, i + 1) ELSE i

NoNum(i) == [ok |-> FALSE, toks |-> <<>>, next |-> i]

NumTokens(s, i, k, j) ==
    IF j > k THEN [ok |-> TRUE, toks |-> SubSeq(s, i, j - 1), next |-> j]
    ELSE NoNum(i)

NumFrom(s, i, k) == NumTokens(s, i, k, SpanDigits(s, k))

\* Optional('-') + Word(nums) at position i; next is i when it does not match
SignedNum(s, i) == NumFrom(s, i, IF CharAt(s, i) = "-" THEN i + 1 ELSE i)

ColonNumAt(r, p) == IF r.ok THEN r ELSE NoNum(p)

\* Literal(':') + (Optional('-') + Word(nums)) at position p
ColonNum(s, p) ==
    IF CharAt(s, p) = ":" THEN ColonNumAt(SignedNum(s, p + 1), p) ELSE NoNum(p)

CloseBracket(s, st, sp, se) ==
    IF CharAt(s, se.next) # "]" THEN [ok |-> FALSE]
    ELSE [ok |-> TRUE, start |-> st.toks, stop |-> sp.toks, step |-> se.toks,
          next |-> se.next + 1]

\* the step is looked for only after a stop
AfterStop(s, st, sp) ==
    CloseBracket(s, st, sp, IF sp.ok THEN ColonNum(s, sp.next) ELSE NoNum(sp.next))

AfterStart(s, st) == AfterStop(s, st, ColonNum(s, st.next))

\* one slice_expression at position i
SliceExpression(s, i) ==
    IF CharAt(s, i) # "[" THEN [ok |-> FALSE]
    ELSE AfterStart(s, SignedNum(s, i + 1))

OptInt(toks) == IF toks # <<>> THEN <<IntOfText(toks)>> ELSE NoneInt

SliceOrIndex(start, stop, step) ==
    IF start # <<>>
    THEN IF ~(Truthy(stop) \/ Truthy(step))
         THEN IntSeg(IntOfText(start))
         ELSE SliceSeg(<<IntOfText(start)>>, stop, step)
    ELSE SliceSeg(NoneInt, stop, step)

\* the body of the loop over slice_matches
SliceOfMatch(m) == SliceOrIndex(m.start, OptInt(m.stop), OptInt(m.step))

RECURSIVE ParseSlicesFrom(_, _)
RECURSIVE ParseMatch(_, _)
ParseMatch(s, m) ==
    IF m.ok THEN <<SliceOfMatch(m)>> \o ParseSlicesFrom(s, m.next) ELSE <<>>

ParseSlicesFrom(s, i) == ParseMatch(s, SliceExpression(s, i))

_parse_slices(slice_substring) == ParseSlicesFrom(slice_substring, 1)

(***************************************************************************)
(* JSONPath._json_path_structure                                           *)
(***************************************************************************)
ElementAt(element, slice_start) ==
    IF slice_start = 0 THEN <<StrSeg(element)>>
    ELSE <<StrSeg(SubSeq(element, 1, slice_start - 1))>>
         \o _parse_slices(SubSeq(element, slice_start, Len(element)))

ElementStructure(element) == ElementAt(element, IndexOf(element, "["))

RECURSIVE FlattenElements(_)
FlattenElements(elements) ==
    IF elements = <<>> THEN <<>>
    ELSE ElementStructure(Head(elements)) \o FlattenElements(Tail(elements))

_json_path_structure(json_path_string) == FlattenElements(SplitDots(json_path_string))

\* JSONPath.__init__
JSONPath(json_path) ==
    [raw_json_path |-> json_path,
     json_path_structure |-> _json_path_structure(json_path)]

(***************************************************************************)
(* JSONPath.string_representation                                          *)
(***************************************************************************)
OptText(o) == IF Truthy(o) THEN TextOfInt(o[1]) ELSE <<>>

ElementText(element) ==
    IF IsSlice(element)
    THEN <<"[">> \o OptText(element.start) \o <<":">> \o OptText(element.stop)
         \o (IF Truthy(element.step) THEN <<":">> \o TextOfInt(element.step[1]) ELSE <<>>)
         \o <<"]">>
    ELSE IF IsInt(element) THEN <<"[">> \o TextOfInt(element.i) \o <<"]">>
    ELSE <<".">> \o element.s

RECURSIVE ElementsText(_)
ElementsText(elements) ==
    IF elements = <<>> THEN <<>>
    ELSE ElementText(Head(elements)) \o ElementsText(Tail(elements))

\* pop(0) of an empty list raises IndexError
string_representation(json_path_structure) ==
    IF json_path_structure = <<>> THEN Raise("IndexError", <<Msg>>)
    ELSE Ok(Head(json_path_structure).s \o ElementsText(Tail(json_path_structure)))

PathOfText(text) == IF text.ok THEN Ok(JSONPath(text.val)) ELSE text

\* JSONPath.from_json_path_structure
from_json_path_structure(json_path_structure) ==
    PathOfText(string_representation(json_path_structure))

(***************************************************************************)
(* JSONPath.is_absolute, is_relative, split, append, __eq__                *)
(***************************************************************************)
is_absolute(self) == CharAt(self.raw_json_path, 1) = "$"

is_relative(self) == CharAt(self.raw_json_path, 1) = "@"

\* structure[:at] and structure[at:] of a Python list, at # 0 and |at| <= len
ListBefore(l, at) == IF at >= 0 THEN SubSeq(l, 1, at) ELSE SubSeq(l, 1, Len(l) + at)

ListFrom(l, at) ==
    IF at >= 0 THEN SubSeq(l, at + 1, Len(l)) ELSE SubSeq(l, Len(l) + at + 1, Len(l))

Abs(n) == IF n < 0 THEN 0 - n ELSE n

\* the tuple of line 167-168: the first path is built first
SplitPair(first, second) ==
    IF ~first.ok THEN first
    ELSE IF ~second.ok THEN second
    ELSE Ok(<<first.val, second.val>>)

SplitStructure(structure, at) ==
    IF ~(Abs(at) \in 1..Len(structure)) THEN Raise("IndexError", <<>>)
    ELSE IF Len(structure) = 1
    THEN Ok(<<JSONPath(structure[1].s), JSONPath(At)>>)
    ELSE SplitPair(from_json_path_structure(ListBefore(structure, at)),
                   from_json_path_structure(<<StrSeg(At)>> \o ListFrom(structure, at)))

\* Ok(<<first, second>>) or the IndexError raised
split(self, at) == SplitStructure(self.json_path_structure, at)

\* append that keeps the anchor of relative_path among the segments
append_with_anchor(self, relative_path) ==
    IF ~is_relative(relative_path) THEN Raise("ValueError", <<Msg>>)
    ELSE Ok([raw_json_path |-> self.raw_json_path \o Tail(relative_path.raw_json_path),
             json_path_structure |-> self.json_path_structure
                                     \o relative_path.json_path_structure])

\* Ok(self after the call) or the ValueError raised (self unchanged)
append(self, relative_path) ==
    IF ~is_relative(relative_path) THEN Raise("ValueError", <<Msg>>)
    ELSE Ok([raw_json_path |-> self.raw_json_path \o Tail(relative_path.raw_json_path),
             json_path_structure |-> self.json_path_structure
                                     \o Tail(relative_path.json_path_structure)])

\* JSONPath.__eq__
PathEq(self, other) == self.json_path_structure = other.json_path_structure

(***************************************************************************)
(* JSON values and Python's subscription current_item[key]                 *)
(***************************************************************************)
NoneV == [t |-> "none"]

BoolV(b) == [t |-> "bool", b |-> b]

IntV(n) == [t |-> "int", n |-> n]

\* a float that is a whole number of halves, kept as that number
FloatV(num) == [t |-> "float", num |-> num]

StrV(s) == [t |-> "str", s |-> s]

DictV(d) == [t |-> "dict", d |-> d]

ListV(l) == [t |-> "list", l |-> l]

EmptyDict == DictV(<<>>)

EmptyList == ListV(<<>>)

IsDict(v) == v.t = "dict"

IsList(v) == v.t = "list"

Max(a, b) == IF a > b THEN a ELSE b

Min(a, b) == IF a < b THEN a ELSE b

RECURSIVE SliceRange(_, _, _)
SliceRange(i, stop, step) ==
    IF (step > 0 /\ i < stop) \/ (step < 0 /\ i > stop)
    THEN <<i + 1>> \o SliceRange(i + step, stop, step)
    ELSE <<>>

Clamp(x, n, lower, upper) == IF x < 0 THEN Max(x + n, lower) ELSE Min(x, upper)

SliceBounds(n, key, step, lower, upper) ==
    SliceRange(IF key.start = NoneInt THEN (IF step > 0 THEN lower ELSE upper)
               ELSE Clamp(key.start[1], n, lower, upper),
               IF key.stop = NoneInt THEN (IF step > 0 THEN upper ELSE lower)
               ELSE Clamp(key.stop[1], n, lower, upper),
               step)

SliceStep(n, key, step) ==
    SliceBounds(n, key, step, IF step > 0 THEN 0 ELSE 0 - 1, IF step > 0 THEN n ELSE n - 1)

\* slice.indices(n): the positions (from 1) that seq[start:stop:step] selects, step # 0
SliceIndices(n, key) == SliceStep(n, key, IF key.step = NoneInt THEN 1 ELSE key.step[1])

SelectSeq2(seq, idx) == [j \in 1..Len(idx) |-> seq[idx[j]]]

\* seq[key] for a list or a str (as its sequence) and an int or slice key:
\* Ok(position from 1) / Ok(positions) or the exception
SeqSubscript(n, key) ==
    IF IsInt(key)
    THEN IF key.i >= 0 - n /\ key.i < n
         THEN Ok(IF key.i < 0 THEN key.i + n + 1 ELSE key.i + 1)
         ELSE Raise("IndexError", <<Msg>>)
    ELSE IF IsSlice(key)
    THEN IF key.step = <<0>> THEN Raise("ValueError", <<Msg>>)
         ELSE Ok(SliceIndices(n, key))
    ELSE Raise("TypeError", <<Msg>>)

ListItem(l, key, r) ==
    IF ~r.ok THEN r
    ELSE IF IsInt(key) THEN Ok(l[r.val])
    ELSE Ok(ListV(SelectSeq2(l, r.val)))

StrItem(s, key, r) ==
    IF ~r.ok THEN r
    ELSE IF IsInt(key) THEN Ok(StrV(<<s[r.val]>>))
    ELSE Ok(StrV(SelectSeq2(s, r.val)))

\* current_item[key].  A dict raises KeyError for a missing key and TypeError
\* for a slice (unhashable); a list and a str take an int or a slice; None,
\* a bool and a number are not subscriptable.
Subscript(cur, key) ==
    CASE cur.t = "dict" ->
           IF IsSlice(key) THEN Raise("TypeError", <<Msg>>)
           ELSE IF IsStr(key) /\ key.s \in DOMAIN cur.d THEN Ok(cur.d[key.s])
           ELSE Raise("KeyError", <<Msg>>)
      [] cur.t = "list" -> ListItem(cur.l, key, SeqSubscript(Len(cur.l), key))
      [] cur.t = "str" -> StrItem(cur.s, key, SeqSubscript(Len(cur.s), key))
      [] OTHER -> Raise("TypeError", <<Msg>>)

IsAnchor(key) == IsStr(key) /\ key.s \in {Dollar, At}

(***************************************************************************)
(* get_item_from_json_path                                                 *)
(***************************************************************************)
ErrorWithPath(kind, sub) ==
    IF sub.ok THEN Raise(kind, <<Msg, sub.val[1]>>) ELSE sub

\* the except clauses: the exception is raised again with the sub-path
\* path.split(at=key_pos + 1)[0] as its second argument
GetError(path, pos, kind) ==
    IF kind \in {"KeyError", "TypeError", "IndexError"}
    THEN ErrorWithPath(kind, split(path, pos))
    ELSE Raise(kind, <<Msg>>)

RECURSIVE GetFrom(_, _, _)
RECURSIVE GetStep(_, _, _)
GetStep(path, pos, r) ==
    IF r.ok THEN GetFrom(path, pos + 1, r.val) ELSE GetError(path, pos, r.exc)

GetFrom(path, pos, current_item) ==
    IF pos > Len(path.json_path_structure) THEN Ok(current_item)
    ELSE IF IsAnchor(path.json_path_structure[pos])
    THEN GetFrom(path, pos + 1, current_item)
    ELSE GetStep(path, pos, Subscript(current_item, path.json_path_structure[pos]))

get_item_from_json_path(path, json) == GetFrom(path, 1, json)

(***************************************************************************)
(* Object identity.  parent.update and array.insert change, in place, the  *)
(* object that get_item_from_json_path returned.  A reference is           *)
(*   [in |-> TRUE, loc |-> steps]    the object of the tree reached from   *)
(*                                   the root by these dict keys and list  *)
(*                                   positions                             *)
(*   [in |-> FALSE, elems |-> refs]  a list that a slice created: a new    *)
(*                                   object, not part of the tree, whose   *)
(*                                   elements are objects of the tree      *)
(***************************************************************************)
RECURSIVE ValueAt(_, _)
ValueAt(json, loc) ==
    IF loc = <<>> THEN json
    ELSE IF IsDict(json) THEN ValueAt(json.d[Head(loc)], Tail(loc))
    ELSE ValueAt(json.l[Head(loc)], Tail(loc))

InTree(loc) == [in |-> TRUE, loc |-> loc]

NewList(elems) == [in |-> FALSE, elems |-> elems]

\* the reference that cur[key] gives, cur being the object at loc
RefInTree(loc, cur, key) ==
    IF IsDict(cur) THEN InTree(loc \o <<key.s>>)
    ELSE IF IsInt(key) THEN InTree(loc \o <<SeqSubscript(Len(cur.l), key).val>>)
    ELSE NewList([j \in 1..Len(SliceIndices(Len(cur.l), key)) |->
                     InTree(loc \o <<SliceIndices(Len(cur.l), key)[j]>>)])

\* the reference that refs[key] gives, refs being a list that a slice created
RefInNew(elems, key) ==
    IF IsInt(key) THEN elems[SeqSubscript(Len(elems), key).val]
    ELSE NewList(SelectSeq2(elems, SliceIndices(Len(elems), key)))

RefStep(json, ref, key) ==
    IF ref.in THEN RefInTree(ref.loc, ValueAt(json, ref.loc), key)
    ELSE RefInNew(ref.elems, key)

RECURSIVE RefFrom(_, _, _, _)
RefFrom(structure, pos, json, ref) ==
    IF pos > Len(structure) THEN ref
    ELSE IF IsAnchor(structure[pos]) THEN RefFrom(structure, pos + 1, json, ref)
    ELSE RefFrom(structure, pos + 1, json, RefStep(json, ref, structure[pos]))

\* the object that get_item_from_json_path(path, json) returns, when it
\* returns a dict or a list
RefOf(path, json) == RefFrom(path.json_path_structure, 1, json, InTree(<<>>))

RECURSIVE ReplaceAt(_, _, _)
ReplaceAt(json, loc, new) ==
    IF loc = <<>> THEN new
    ELSE IF IsDict(json)
    THEN DictV([json.d EXCEPT ![Head(loc)] = ReplaceAt(@, Tail(loc), new)])
    ELSE ListV([json.l EXCEPT ![Head(loc)] = ReplaceAt(@, Tail(loc), new)])

\* the write made into a copy of the object, json left as it was
MutateCopy(json, ref, new) == json

\* json after the object ref has become new: a new object leaves json as it is
Mutate(json, ref, new) == IF ref.in THEN ReplaceAt(json, ref.loc, new) ELSE json

Last(structure) == structure[Len(structure)]

\* parent = {key: item} in the place of parent.update({key: item})
DictReplace(d, key, item) == [x \in {key} |-> item]

\* dict.update({key: item})
DictUpdate(d, key, item) ==
    [x \in (DOMAIN d) \cup {key} |-> IF x = key THEN item ELSE d[x]]

\* list[i] = item in the place of list.insert(i, item)
ListOverwrite(l, i, item) == SubSeq(l, 1, i) \o <<item>> \o SubSeq(l, i + 2, Len(l))

\* list.insert(i, item) for 0 <= i <= len(list)
ListInsert(l, i, item) == SubSeq(l, 1, i) \o <<item>> \o SubSeq(l, i + 1, Len(l))

(***************************************************************************)
(* _write_item_in_array, _write_item_in_dict: Ok(json after the call) or   *)
(* the exception; json is changed in place, and only by the last           *)
(* statement.  Both are called with a path whose parent                    *)
(* get_item_from_json_path has just returned.                              *)
(***************************************************************************)
\* lines 277-283 with a key below -1 moved to the end of the array
ArrayWriteRemapped(array, key, item) ==
    IF key <= 0 - 1 THEN Ok(array \o <<item>>)
    ELSE IF key > Len(array) THEN Raise("IndexError", <<Msg>>)
    ELSE Ok(ListInsert(array, key, item))

\* lines 277-283
ArrayWrite(array, key, item) ==
    IF key = 0 - 1 THEN Ok(array \o <<item>>)
    ELSE IF key < 0 - 1 \/ key > Len(array) THEN Raise("IndexError", <<Msg>>)
    ELSE Ok(ListInsert(array, key, item))

ArrayMutate(json, array_path, written) ==
    IF ~written.ok THEN written
    ELSE Ok(Mutate(json, RefOf(array_path, json), ListV(written.val)))

ArrayGot(item, key, json, array_path, array) ==
    IF ~array.ok THEN array
    ELSE ArrayMutate(json, array_path, ArrayWrite(array.val.l, key, item))

ArrayIn(item, key, json, sp) ==
    IF ~sp.ok THEN sp
    ELSE ArrayGot(item, key, json, sp.val[1], get_item_from_json_path(sp.val[1], json))

_write_item_in_array(item, in_path, json) ==
    IF IsSlice(Last(in_path.json_path_structure)) THEN Raise("ValueError", <<Msg, in_path>>)
    ELSE IF ~IsInt(Last(in_path.json_path_structure))
    THEN Raise("ValueError", <<Msg, in_path>>)
    ELSE ArrayIn(item, Last(in_path.json_path_structure).i, json, split(in_path, 0 - 1))

DictGot(item, item_key, json, parent_path, parent) ==
    IF ~parent.ok THEN parent
    ELSE Ok(Mutate(json, RefOf(parent_path, json),
                   DictV(DictUpdate(parent.val.d, item_key, item))))

DictIn(item, item_key, json, sp) ==
    IF ~sp.ok THEN sp
    ELSE DictGot(item, item_key, json, sp.val[1], get_item_from_json_path(sp.val[1], json))

_write_item_in_dict(item, in_path, json) ==
    IF ~IsStr(Last(in_path.json_path_structure)) THEN Raise("ValueError", <<Msg>>)
    ELSE DictIn(item, Last(in_path.json_path_structure).s, json, split(in_path, 0 - 1))

(***************************************************************************)
(* _write_item_in_path: wraps item in one container per segment of         *)
(* in_path after its anchor, from the last to the first; a slice segment   *)
(* wraps nothing.                                                          *)
(***************************************************************************)
\* an Index segment wrapped as [item, item]
WrapItemTwice(key, item) ==
    IF IsStr(key) THEN DictV(DictUpdate(<<>>, key.s, item))
    ELSE IF IsInt(key) THEN ListV(<<item, item>>)
    ELSE item

WrapItem(key, item) ==
    IF IsStr(key) THEN DictV(DictUpdate(<<>>, key.s, item))
    ELSE IF IsInt(key) THEN ListV(<<item>>)
    ELSE item

RECURSIVE WrapFrom(_, _)
WrapFrom(keys, item) ==
    IF keys = <<>> THEN item
    ELSE WrapItem(Head(keys), WrapFrom(Tail(keys), item))

_write_item_in_path(item, in_path) == WrapFrom(Tail(in_path.json_path_structure), item)

(***************************************************************************)
(* write_item_in_path.  One activation of the function ends in one of      *)
(*   [kind |-> "return", val |-> the value returned]                       *)
(*   [kind |-> "raise", exc |-> the exception that leaves it]              *)
(*   [kind |-> "call", item, in_path, json |-> the arguments of the        *)
(*             recursive call of line 351, whose result it returns]        *)
(***************************************************************************)
\* except (KeyError, TypeError, IndexError, ValueError)
CaughtWithValueError == {"KeyError", "TypeError", "IndexError", "ValueError"}

Caught == {"KeyError", "TypeError", "IndexError"}

Returns(v) == [kind |-> "return", val |-> v]

Raises(kind) == [kind |-> "raise", exc |-> kind]

Calls(item, in_path, json) ==
    [kind |-> "call", item |-> item, in_path |-> in_path, json |-> json]

\* json = [] or {} of lines 324-327
NewRoot(structure) == IF IsInt(structure[2]) THEN EmptyList ELSE EmptyDict

TryIn(item, in_path, parent_path, json, parent_item) ==
    IF ~parent_item.ok THEN parent_item
    ELSE IF IsDict(parent_item.val) THEN _write_item_in_dict(item, in_path, json)
    ELSE IF IsList(parent_item.val) THEN _write_item_in_array(item, in_path, json)
    ELSE Raise("TypeError", <<Msg, parent_path>>)

\* the try block, lines 333-341: Ok(json after the write) or the exception
TryWrite(item, in_path, parent_path, json) ==
    TryIn(item, in_path, parent_path, json, get_item_from_json_path(parent_path, json))

\* the except block leaving the missing item at the end of an array json
\* before the recursive call
RecoverAtAttached(item, error_at_path, json, sp) ==
    IF ~sp.ok THEN Raises(sp.exc)
    ELSE Calls(_write_item_in_path(item, sp.val[2]), error_at_path,
               IF IsList(json)
               THEN ListV(json.l \o <<_write_item_in_path(item, sp.val[2])>>)
               ELSE json)

RecoverAt(item, error_at_path, json, sp) ==
    IF ~sp.ok THEN Raises(sp.exc)
    ELSE Calls(_write_item_in_path(item, sp.val[2]), error_at_path, json)

\* the except block, lines 342-351, for the exception e
Recover(item, in_path, json, e) ==
    IF Len(e.args) < 2 THEN Raises("IndexError")
    ELSE RecoverAt(item, e.args[2], json,
                   split(in_path, Len(e.args[2].json_path_structure)))

FrameTried(item, in_path, json, try) ==
    IF try.ok THEN Returns(try.val)
    ELSE IF try.exc \in Caught THEN Recover(item, in_path, json, try)
    ELSE Raises(try.exc)

FrameIn(item, in_path, json, sp) ==
    IF ~sp.ok THEN Raises(sp.exc)
    ELSE FrameTried(item, in_path, json, TryWrite(item, in_path, sp.val[1], json))

WriteFrame(item, in_path, json) ==
    IF json = NoneV /\ Len(in_path.json_path_structure) = 1 THEN Returns(item)
    ELSE FrameIn(item, in_path,
                 IF json = NoneV THEN NewRoot(in_path.json_path_structure) ELSE json,
                 split(in_path, 0 - 1))

\* The depth of recursion at which the interpreter raises RecursionError
\* (sys.getrecursionlimit(), 1000 by default), scaled down.
RecursionLimit == 6

\* The whole call: Ok(the value returned) or the exception raised
RECURSIVE WriteRun(_, _, _, _)
RECURSIVE RunFrame(_, _)
RunFrame(f, depth) ==
    IF f.kind = "return" THEN Ok(f.val)
    ELSE IF f.kind = "raise" THEN Raise(f.exc, <<Msg>>)
    ELSE IF depth >= RecursionLimit THEN Raise("RecursionError", <<Msg>>)
    ELSE WriteRun(f.item, f.in_path, f.json, depth + 1)

WriteRun(item, in_path, json, depth) == RunFrame(WriteFrame(item, in_path, json), depth)

write_item_in_path(item, in_path, json) == WriteRun(item, in_path, json, 0)

(***************************************************************************)
(* Type inference: str_is_int, str_is_float, str_is_bool, infer_json_type  *)
(***************************************************************************)
UpperChars == <<"A", "E", "F", "I", "L", "N", "R", "S", "T", "U", "Y">>

LowerChars == <<"a", "e", "f", "i", "l", "n", "r", "s", "t", "u", "y">>

\* str.lower() on the letters of the model's texts
LowerChar(c) ==
    IF \E j \in 1..Len(UpperChars) : UpperChars[j] = c
    THEN LowerChars[CHOOSE j \in 1..Len(UpperChars) : UpperChars[j] = c]
    ELSE c

Lower(s) == [j \in 1..Len(s) |-> LowerChar(s[j])]

Signs == {"-", "+"}

StripSign(value) == IF value[1] \in Signs THEN Tail(value) ELSE value

\* str.isdigit()
IsDigitText(s) == s # <<>> /\ \A j \in 1..Len(s) : s[j] \in DigitChars

\* digit (["_"] digit)* from position i: the position after it, i when none
RECURSIVE SpanDigitPart(_, _)
SpanDigitPart(s, i) ==
    IF CharAt(s, i) \notin DigitChars THEN i
    ELSE IF CharAt(s, i + 1) = "_" /\ CharAt(s, i + 2) \in DigitChars
    THEN SpanDigitPart(s, i + 2)
    ELSE IF CharAt(s, i + 1) \in DigitChars THEN SpanDigitPart(s, i + 1)
    ELSE i + 1

InfNanTexts == {<<"n", "a", "n">>, <<"i", "n", "f", "i", "n", "i", "t", "y">>, <<"i", "n", "f">>}

Exponent(s, i2, ex) ==
    IF ex > i2 THEN SpanDigitPart(s, ex) > ex /\ SpanDigitPart(s, ex) = Len(s) + 1
    ELSE i2 = Len(s) + 1

\* after the mantissa, which ends before i2: an optional e or E, sign, digits
AfterMantissa(s, i2) ==
    Exponent(s, i2,
             IF CharAt(s, i2) \in {"e", "E"}
             THEN (IF CharAt(s, i2 + 1) \in Signs THEN i2 + 2 ELSE i2 + 1)
             ELSE i2)

Fraction(s, b, i1, i2) == (i1 > b \/ i2 > i1 + 1) /\ AfterMantissa(s, i2)

Mantissa(s, b, i1) ==
    Fraction(s, b, i1, IF CharAt(s, i1) = "." THEN SpanDigitPart(s, i1 + 1) ELSE i1)

Unsigned(s, b) ==
    \/ Lower(SubSeq(s, b, Len(s))) \in InfNanTexts
    \/ Mantissa(s, b, SpanDigitPart(s, b))

\* float(s) returns (no ValueError): [sign] (inf | infinity | nan | decimal
\* literal with optional fraction and exponent); the texts hold no white space
FloatParses(s) == Unsigned(s, IF CharAt(s, 1) \in Signs THEN 2 ELSE 1)

str_is_int(value) ==
    IF value = <<>> THEN FALSE ELSE IsDigitText(StripSign(value))

str_is_float(value) ==
    IF value = <<>> THEN FALSE
    ELSE IF Lower(StripSign(value)) \in InfNanTexts THEN FALSE
    ELSE FloatParses(StripSign(value))

str_is_bool(value) == Lower(value) \in {<<"t", "r", "u", "e">>, <<"f", "a", "l", "s", "e">>}

\* float.is_integer() of the float num/2
is_integer(value) == value.num % 2 = 0

\* Ok(a JSONNodeType) or the ValueError of line 434
infer_json_type(value) ==
    IF value = NoneV THEN Ok("NULL")
    ELSE IF IsDict(value) THEN Ok("OBJECT")
    ELSE IF IsList(value) THEN Ok("ARRAY")
    ELSE IF value.t = "str"
    THEN IF str_is_bool(value.s) THEN Ok("BOOLEAN")
         ELSE IF str_is_float(value.s) THEN Ok("NUMBER")
         ELSE IF str_is_int(value.s) THEN Ok("INTEGER")
         ELSE Ok("STRING")
    ELSE IF value.t = "float"
    THEN (IF is_integer(value) THEN Ok("INTEGER") ELSE Ok("NUMBER"))
    ELSE IF value.t = "bool" THEN Ok("BOOLEAN")
    ELSE Raise("ValueError", <<Msg>>)


(***************************************************************************)
(* Bounds and inputs                                                       *)
(***************************************************************************)
\* writes made one after another on the caller's tree
MaxWrites == 2

\* segments after the anchor of a generated path text
MaxSegs == 2

\* characters of a generated text value
MaxTextLen == 3

KeyA == <<".", "a">>

KeyB == <<".", "b">>

Idx0 == <<"[", "0", "]">>

Idx1 == <<"[", "1", "]">>

IdxLast == <<"[", "-", "1", "]">>

SliceTo5 == <<"[", ":", "5", "]">>

Slice0To5 == <<"[", "0", ":", "5", "]">>

Pieces == {KeyA, KeyB, Idx0, Idx1, IdxLast, SliceTo5}

Idx2 == <<"[", "2", "]">>

IdxBelow == <<"[", "-", "2", "]">>

\* indexes past the end of every array of the starting trees and below -1
OuterPieces == {Idx2, IdxBelow}

SliceFrom2 == <<"[", "2", ":", "]">>

SliceBy2 == <<"[", ":", ":", "2", "]">>

Slice1To5By2 == <<"[", "1", ":", "5", ":", "2", "]">>

Slice1To0 == <<"[", "1", ":", "0", "]">>

BracketX == <<"[", "x", "]">>

BracketOpen == <<"[", "0">>

\* brackets that end a path text: slices with parts omitted, a bracket
\* that holds no number, a bracket that is not closed
BracketPieces == {SliceFrom2, SliceBy2, Slice1To5By2, Slice1To0, BracketX, BracketOpen}

RECURSIVE TextsOf(_, _)
TextsOf(pieces, n) ==
    IF n = 0 THEN {Dollar}
    ELSE TextsOf(pieces, n - 1) \cup {t \o q : t \in TextsOf(pieces, n - 1), q \in pieces}

\* the path texts of the writes: "$" followed by up to MaxSegs pieces, the
\* path of the documented scenario, a relative path, and "$" and "$.a"
\* followed by an outer index
WriteTexts ==
    TextsOf(Pieces, MaxSegs)
        \cup {Dollar \o KeyA \o KeyB \o Idx1, At \o KeyA}
        \cup {t \o q : t \in {Dollar, Dollar \o KeyA}, q \in OuterPieces}

X == StrV(<<"x">>)

XY == StrV(<<"x", "y">>)

Seven == IntV(7)

\* the item of the n-th write
ItemOf(n) == IF n % 2 = 1 THEN X ELSE Seven

\* None, {}, [], {"a": [7]}, {"a": "xy"}, [{"a": "xy"}]
InitTrees ==
    {NoneV, EmptyDict, EmptyList,
     DictV(DictUpdate(<<>>, <<"a">>, ListV(<<Seven>>))),
     DictV(DictUpdate(<<>>, <<"a">>, XY)),
     ListV(<<DictV(DictUpdate(<<>>, <<"a">>, XY))>>)}

\* the trees that are read: those of the writes and {"a": [7, 7]}, {"a": {}}
GetTrees ==
    (InitTrees \ {NoneV})
        \cup {DictV(DictUpdate(<<>>, <<"a">>, ListV(<<Seven, Seven>>))),
              DictV(DictUpdate(<<>>, <<"a">>, EmptyDict))}

\* the path texts that are read and split: "$" or "@" followed by up to
\* MaxSegs + 1 pieces, slices with a start of 0 among them
PathTexts ==
    TextsOf(Pieces \cup {Slice0To5}, MaxSegs + 1)
        \cup {At \o Tail(t) : t \in TextsOf(Pieces, MaxSegs)}
        \cup {t \o q : t \in TextsOf(Pieces, MaxSegs), q \in BracketPieces}

\* the texts of the paths that are appended: "@", "@.a", "@[1]", "@.b[:5]",
\* "$", "$.a"
AppendTexts ==
    {At, At \o KeyA, At \o Idx1, At \o KeyB \o SliceTo5, Dollar, Dollar \o KeyA}

\* the values of split's parameter at
Ats == (0 - (MaxSegs + 3)) .. (MaxSegs + 3)

TextChars == {"1", "3", "-", ".", "e", "t"}

RECURSIVE TextsUpTo(_)
TextsUpTo(n) ==
    IF n = 0 THEN {<<>>}
    ELSE TextsUpTo(n - 1) \cup {t \o <<c>> : t \in TextsUpTo(n - 1), c \in TextChars}

\* the values whose type is inferred: texts, None, containers, native
\* numbers and booleans, and an object of no JSON kind
InferValues ==
    {StrV(t) : t \in TextsUpTo(MaxTextLen)}
        \cup {StrV(<<"t", "r", "u", "e">>), StrV(<<"F", "a", "l", "s", "e">>),
              StrV(<<"i", "n", "f">>), StrV(<<"-", "I", "n", "f">>),
              StrV(<<"n", "a", "n">>), StrV(<<"-", "3", ".", "5">>),
              StrV(<<"1", "e", "-", "3">>), StrV(<<"x">>)}
        \cup InitTrees
        \cup {IntV(3), IntV(0), FloatV(6), FloatV(7), BoolV(TRUE), BoolV(FALSE),
              [t |-> "object"]}

(***************************************************************************)
(* The caller of write_item_in_path.                                       *)
(*   tree      the caller's tree object (NoneV for None)                   *)
(*   pc        "idle", "running" (inside write_item_in_path), "returned",  *)
(*             "raised"                                                    *)
(*   item, in_path, json   the arguments of the current activation         *)
(*   depth     the number of recursive calls made so far by this write     *)
(*   ret, exc  the value returned, the exception raised                    *)
(*   tree0, item0, path0   the caller's tree and arguments at the call     *)
(*   start, hist, chained  the tree of the first call, the (item, path)    *)
(*             of the calls made since, and whether each of them returned  *)
(*             and the caller took its result as the tree of the next      *)
(***************************************************************************)
VARIABLES tree, pc, item, in_path, json, depth, ret, exc, tree0, item0, path0,
          start, hist, chained

wvars == <<tree, pc, item, in_path, json, depth, ret, exc, tree0, item0, path0,
           start, hist, chained>>

(***************************************************************************)
(* A reader: get_item_from_json_path(gpath, gtree) with its outcome got    *)
(***************************************************************************)
VARIABLES gtree, gpath, got

gvars == <<gtree, gpath, got>>

(***************************************************************************)
(* A JSONPath object self and the results of self.split(at): first,        *)
(* second; op is the last operation, "new", "split", "split_raised",       *)
(* "appended"                                                              *)
(***************************************************************************)
VARIABLES self, at, first, second, op

pvars == <<self, at, first, second, op>>

(***************************************************************************)
(* infer_json_type(value) with its outcome inferred                        *)
(***************************************************************************)
VARIABLES value, inferred

ivars == <<value, inferred>>

vars == <<wvars, gvars, pvars, ivars>>

Structure(path) == path.json_path_structure

Pending == [ok |-> FALSE, exc |-> "pending", args |-> <<>>]

NoPath == JSONPath(Dollar)

WInitIdle ==
    /\ tree = NoneV /\ pc = "idle" /\ item = NoneV /\ in_path = NoPath
    /\ json = NoneV /\ depth = 0 /\ ret = NoneV /\ exc = "" /\ tree0 = NoneV
    /\ item0 = NoneV /\ path0 = NoPath /\ start = NoneV /\ hist = <<>>
    /\ chained = TRUE

GInitIdle == gtree = NoneV /\ gpath = NoPath /\ got = Pending

PInitIdle ==
    /\ self = NoPath /\ at = 0 /\ first = NoPath /\ second = NoPath /\ op = "new"

IInitIdle == value = NoneV /\ inferred = Pending

(***************************************************************************)
(* Spec: the writes                                                        *)
(***************************************************************************)
Init ==
    /\ tree \in InitTrees /\ start = tree
    /\ pc = "idle" /\ item = NoneV /\ in_path = NoPath /\ json = NoneV
    /\ depth = 0 /\ ret = NoneV /\ exc = "" /\ tree0 = NoneV /\ item0 = NoneV
    /\ path0 = NoPath /\ hist = <<>> /\ chained = TRUE
    /\ GInitIdle /\ PInitIdle /\ IInitIdle

\* the caller calls write_item_in_path(v, JSONPath(text), tree)
Call(v, text) ==
    /\ pc = "idle"
    /\ Len(hist) < MaxWrites
    /\ v = ItemOf(Len(hist) + 1)
    /\ pc' = "running"
    /\ item' = v /\ in_path' = JSONPath(text) /\ json' = tree /\ depth' = 0
    /\ tree0' = tree /\ item0' = v /\ path0' = JSONPath(text)
    /\ hist' = Append(hist, [item |-> v, path |-> JSONPath(text)])
    /\ UNCHANGED <<tree, ret, exc, start, chained>>

Returned(f) ==
    /\ f.kind = "return"
    /\ ret' = f.val
    /\ tree' = IF tree = NoneV THEN tree ELSE f.val

Raised(f) == f.kind = "raise" /\ exc' = f.exc

Called(f) ==
    /\ f.kind = "call"
    /\ item' = f.item /\ in_path' = f.in_path /\ json' = f.json

\* the activation returns: what it wrote, it wrote into the object it was
\* given, which is the caller's tree unless the caller gave None
Return ==
    /\ pc = "running"
    /\ Returned(WriteFrame(item, in_path, json))
    /\ pc' = "returned"
    /\ UNCHANGED <<item, in_path, json, depth, exc, tree0, item0, path0, start,
                   hist, chained>>

\* an exception leaves the activation, and with it every activation below
RaiseOut ==
    /\ pc = "running"
    /\ Raised(WriteFrame(item, in_path, json))
    /\ pc' = "raised"
    /\ UNCHANGED <<tree, item, in_path, json, depth, ret, tree0, item0, path0,
                   start, hist, chained>>

\* the recursive call of line 351
Recurse ==
    /\ pc = "running"
    /\ depth < RecursionLimit
    /\ Called(WriteFrame(item, in_path, json))
    /\ depth' = depth + 1
    /\ UNCHANGED <<tree, pc, ret, exc, tree0, item0, path0, start, hist, chained>>

\* the interpreter refuses a deeper call
Overflow ==
    /\ pc = "running"
    /\ depth >= RecursionLimit
    /\ WriteFrame(item, in_path, json).kind = "call"
    /\ pc' = "raised" /\ exc' = "RecursionError"
    /\ UNCHANGED <<tree, item, in_path, json, depth, ret, tree0, item0, path0,
                   start, hist, chained>>

\* json = write_item_in_path(item, path, json) in the caller
Rebind ==
    /\ pc = "returned"
    /\ tree' = ret
    /\ pc' = "idle"
    /\ UNCHANGED <<item, in_path, json, depth, ret, exc, tree0, item0, path0,
                   start, hist, chained>>

\* the caller catches the exception and goes on with the tree object it has
Catch ==
    /\ pc = "raised"
    /\ pc' = "idle"
    /\ chained' = FALSE
    /\ UNCHANGED <<tree, item, in_path, json, depth, ret, exc, tree0, item0,
                   path0, start, hist>>

Next ==
    \/ \E v \in {X, Seven}, text \in WriteTexts : Call(v, text) /\ UNCHANGED <<gvars, pvars, ivars>>
    \/ Return /\ UNCHANGED <<gvars, pvars, ivars>>
    \/ RaiseOut /\ UNCHANGED <<gvars, pvars, ivars>>
    \/ Recurse /\ UNCHANGED <<gvars, pvars, ivars>>
    \/ Overflow /\ UNCHANGED <<gvars, pvars, ivars>>
    \/ Rebind /\ UNCHANGED <<gvars, pvars, ivars>>
    \/ Catch /\ UNCHANGED <<gvars, pvars, ivars>>

Spec == Init /\ [][Next]_vars

(***************************************************************************)
(* SpecGet: one read of a tree                                             *)
(***************************************************************************)
InitGet ==
    /\ gtree \in GetTrees
    /\ gpath \in {JSONPath(t) : t \in PathTexts}
    /\ got = Pending
    /\ WInitIdle /\ PInitIdle /\ IInitIdle

Get ==
    /\ got = Pending
    /\ got' = get_item_from_json_path(gpath, gtree)
    /\ UNCHANGED <<gtree, gpath>>

NextGet == Get /\ UNCHANGED <<wvars, pvars, ivars>>

SpecGet == InitGet /\ [][NextGet]_vars

(***************************************************************************)
(* SpecPath: a path is split, and the second part appended to the first    *)
(***************************************************************************)
InitPath ==
    /\ self \in {JSONPath(t) : t \in PathTexts}
    /\ at = 0 /\ first = NoPath /\ second = NoPath /\ op = "new"
    /\ WInitIdle /\ GInitIdle /\ IInitIdle

SplitDone(r) ==
    /\ r.ok
    /\ first' = r.val[1] /\ second' = r.val[2]
    /\ op' = "split"

\* first, second = self.split(k)
Split(k) ==
    /\ op = "new"
    /\ at' = k
    /\ SplitDone(split(self, k))
    /\ UNCHANGED self

\* self.split(k) raises
SplitRaises(k) ==
    /\ op = "new"
    /\ at' = k
    /\ ~split(self, k).ok
    /\ op' = "split_raised"
    /\ UNCHANGED <<self, first, second>>

Appended(r) ==
    /\ first' = (IF r.ok THEN r.val ELSE first)
    /\ op' = (IF r.ok THEN "appended" ELSE "append_raised")

Rebuilt(r) ==
    /\ r.ok
    /\ first' = r.val
    /\ op' = "rebuilt"

\* first = JSONPath.from_json_path_structure(self.json_path_structure)
Rebuild ==
    /\ op = "new"
    /\ Rebuilt(from_json_path_structure(Structure(self)))
    /\ UNCHANGED <<self, at, second>>

\* first.append(second)
AppendSecond ==
    /\ op = "split"
    /\ Appended(append(first, second))
    /\ UNCHANGED <<self, at, second>>

Extended(r) ==
    /\ first' = (IF r.ok THEN r.val ELSE self)
    /\ op' = (IF r.ok THEN "extended" ELSE "extend_raised")

\* first = a copy of self; second = JSONPath(text); first.append(second)
AppendTo(text) ==
    /\ op = "new"
    /\ second' = JSONPath(text)
    /\ Extended(append(self, JSONPath(text)))
    /\ UNCHANGED <<self, at>>

NextPath ==
    \/ \E k \in Ats : Split(k) /\ UNCHANGED <<wvars, gvars, ivars>>
    \/ \E k \in Ats : SplitRaises(k) /\ UNCHANGED <<wvars, gvars, ivars>>
    \/ AppendSecond /\ UNCHANGED <<wvars, gvars, ivars>>
    \/ Rebuild /\ UNCHANGED <<wvars, gvars, ivars>>
    \/ \E text \in AppendTexts : AppendTo(text) /\ UNCHANGED <<wvars, gvars, ivars>>

SpecPath == InitPath /\ [][NextPath]_vars

(***************************************************************************)
(* SpecInfer: the type of one value is inferred                            *)
(***************************************************************************)
InitInfer ==
    /\ value \in InferValues
    /\ inferred = Pending
    /\ WInitIdle /\ GInitIdle /\ PInitIdle

Infer ==
    /\ inferred = Pending
    /\ inferred' = infer_json_type(value)
    /\ UNCHANGED value

NextInfer == Infer /\ UNCHANGED <<wvars, gvars, pvars>>

SpecInfer == InitInfer /\ [][NextInfer]_vars

(***************************************************************************)
(* Properties of the writes (Spec)                                         *)
(***************************************************************************)
\* an anchor followed by Key and Index segments
KeyIndexPath(path) ==
    /\ Len(Structure(path)) > 1
    /\ \A i \in 2..Len(Structure(path)) : IsStr(Structure(path)[i]) \/ IsInt(Structure(path)[i])

ContainerOrNone(t) == t = NoneV \/ IsDict(t) \/ IsList(t)

Finished == pc \in {"returned", "raised"}

\* C1: write/read consistency: for every path p made of an anchor followed
\* by Key and Index segments, every value v and every starting tree T (a
\* dict, a list or None), write_item_in_path(v, p, T) succeeds and
\* get_item_from_json_path(p, result) returns v.
WriteReadConsistent ==
    (Finished /\ KeyIndexPath(path0) /\ ContainerOrNone(tree0))
        => (pc = "returned" /\ get_item_from_json_path(path0, ret) = Ok(item0))

\* C2: write_item_in_path never mutates the tree it is given: after any
\* call the caller's input tree equals what it was before the call (the
\* returned tree is a copy).
InputNeverMutated == Finished => tree = tree0

ParentOf(path) ==
    [raw_json_path |-> path.raw_json_path,
     json_path_structure |-> SubSeq(Structure(path), 1, Len(Structure(path)) - 1)]

HoldsAt(array, i, v) ==
    array.ok /\ IsList(array.val) /\ Len(array.val.l) > i /\ array.val.l[i + 1] = v

\* C3: write_item_in_path("x", JSONPath("$.a.b[1]"), None) returns an object
\* whose member a is an object whose member b is an array in which "x" sits
\* at position 1; more generally, when an array is auto-created for a
\* missing Index segment i of a write into None, the written value ends up
\* at position i of that array.
AutoCreatedIndexKept ==
    (pc = "returned" /\ tree0 = NoneV /\ KeyIndexPath(path0)
        /\ IsInt(Last(Structure(path0))) /\ Last(Structure(path0)).i >= 0)
        => HoldsAt(get_item_from_json_path(ParentOf(path0), ret),
                   Last(Structure(path0)).i, item0)

\* C4: a write whose target (last) segment is a Slice always fails with an
\* error and writes nothing, whether the parent is an existing object, an
\* existing array, or missing.
SliceTargetFails ==
    (Finished /\ IsSlice(Last(Structure(path0))))
        => (pc = "raised" /\ tree = tree0)

\* C5: every call of write_item_in_path terminates without exhausting the
\* stack: the recursion depth never exceeds the number of segments of the
\* original path, for every path and every starting tree, a single-segment
\* path and a tree whose root is not a container included.
DepthWithinPath ==
    /\ depth <= Len(Structure(path0))
    /\ pc = "raised" => exc # "RecursionError"

IsPrefix(a, b) == Len(a) <= Len(b) /\ SubSeq(b, 1, Len(a)) = a

\* the destination paths are pairwise distinct and none is a prefix of another
Independent(writes) ==
    \A i, j \in 1..Len(writes) :
        i # j => ~IsPrefix(Structure(writes[i].path), Structure(writes[j].path))

Perms(n) == {f \in [1..n -> 1..n] : \A i, j \in 1..n : f[i] = f[j] => i = j}

InOrder(writes, f) == [i \in 1..Len(writes) |-> writes[f[i]]]

ApplyNext(r, write) ==
    IF r.ok THEN write_item_in_path(write.item, write.path, r.val) ELSE r

\* the writes applied one after another, each to the result of the one before
RECURSIVE ApplyFrom(_, _)
ApplyFrom(r, writes) ==
    IF writes = <<>> THEN r
    ELSE ApplyFrom(ApplyNext(r, Head(writes)), Tail(writes))

\* the writes made so far were applied one after another, from start
Applied == chained /\ hist # <<>> /\ pc \in {"idle", "raised"}

SameInEveryOrder ==
    /\ pc = "idle"
    /\ \A f \in Perms(Len(hist)) : ApplyFrom(Ok(start), InOrder(hist, f)) = Ok(tree)

\* C6 as stated: for any set of writes whose destination paths are pairwise
\* distinct and none a prefix of another, applying them one after another
\* to the same starting tree (None included) succeeds in every order and
\* every order yields the same final tree.
OrderIndependent == (Applied /\ Independent(hist)) => SameInEveryOrder

\* the absolute path has one or more segments after its anchor, each a Key
\* that is not an anchor's name
KeysOnly(path) ==
    /\ Len(Structure(path)) > 1
    /\ Structure(path)[1] = StrSeg(Dollar)
    /\ \A i \in 2..Len(Structure(path)) :
           IsStr(Structure(path)[i]) /\ ~IsAnchor(Structure(path)[i])

RECURSIVE NoArrays(_)
NoArrays(v) ==
    IF IsList(v) THEN FALSE
    ELSE IF IsDict(v) THEN \A key \in DOMAIN v.d : NoArrays(v.d[key])
    ELSE TRUE

\* None, or an object that holds no array
ObjectTree(t) == t = NoneV \/ (IsDict(t) /\ NoArrays(t))

KeyWrites ==
    /\ Applied /\ Independent(hist) /\ ObjectTree(start)
    /\ \A i \in 1..Len(hist) : KeysOnly(hist[i].path)

\* C6 as amended: for any set of writes whose destination paths are
\* absolute, made of Key segments only, pairwise distinct and none a prefix
\* of another, applying them one after another to a starting tree that is
\* None or an object holding no array succeeds in every order, and every
\* order yields the same final tree.
KeyWritesOrderIndependent == KeyWrites => SameInEveryOrder

\* two writes below the member a of {"a": "xy"} have been applied
KeyWritesApplied ==
    /\ KeyWrites /\ pc = "idle" /\ Len(hist) = 2
    /\ IsDict(start) /\ DOMAIN start.d # {}
    /\ Len(Structure(hist[1].path)) = 3 /\ Len(Structure(hist[2].path)) = 3
    /\ Structure(hist[1].path)[2] = Structure(hist[2].path)[2]
    /\ Structure(hist[1].path)[2].s \in DOMAIN start.d

(***************************************************************************)
(* Properties of the reads (SpecGet)                                       *)
(***************************************************************************)
\* the position of the first segment of structure, from pos on, that cannot
\* be accessed, with the item it is applied to; position 0 if there is none
RECURSIVE FirstFailure(_, _, _)
FirstFailure(structure, pos, current_item) ==
    IF pos > Len(structure) THEN [pos |-> 0, item |-> current_item]
    ELSE IF IsAnchor(structure[pos]) THEN FirstFailure(structure, pos + 1, current_item)
    ELSE IF Subscript(current_item, structure[pos]).ok
    THEN FirstFailure(structure, pos + 1, Subscript(current_item, structure[pos]).val)
    ELSE [pos |-> pos, item |-> current_item]

\* the kind of error the three named cases call for
KindFits(kind, current_item, key) ==
    /\ (IsDict(current_item) /\ IsStr(key)) => kind = "KeyError"
    /\ (~IsDict(current_item) /\ ~IsList(current_item)) => kind = "TypeError"
    /\ (IsList(current_item) /\ IsInt(key)) => kind = "IndexError"

CarriesFailure(e, structure, failure) ==
    /\ Len(e.args) = 2
    /\ Structure(e.args[2]) = SubSeq(structure, 1, failure.pos)
    /\ KindFits(e.exc, failure.item, structure[failure.pos])

\* C7: when get_item_from_json_path fails, the error carries as its second
\* argument the JSONPath made of exactly the segments of the requested path
\* up to and including the first segment that could not be accessed, and
\* its kind is KeyError for a key missing from an object, TypeError for
\* indexing a value that is not a container, IndexError for an array index
\* out of range.
ErrorCarriesFailingPrefix ==
    (got # Pending /\ ~got.ok)
        => CarriesFailure(got, Structure(gpath), FirstFailure(Structure(gpath), 1, gtree))

(***************************************************************************)
(* Properties of the inference (SpecInfer)                                 *)
(***************************************************************************)
\* an optionally signed run of digits
SignedDigits(s) == s # <<>> /\ IsDigitText(StripSign(s))

\* a finite decimal number: nan, inf and infinity, signed or not, are none
FiniteDecimal(s) ==
    /\ s # <<>>
    /\ Lower(StripSign(s)) \notin InfNanTexts
    /\ Mantissa(StripSign(s), 1, SpanDigitPart(StripSign(s), 1))

TextType(s) ==
    IF str_is_bool(s) THEN "BOOLEAN"
    ELSE IF SignedDigits(s) THEN "INTEGER"
    ELSE IF FiniteDecimal(s) THEN "NUMBER"
    ELSE "STRING"

\* C8: for a text value infer_json_type tests in this order: "true"/"false"
\* in any case gives BOOLEAN; otherwise an optionally signed run of digits
\* gives INTEGER; otherwise a finite decimal number gives NUMBER; otherwise
\* STRING.  So "3" is INTEGER, "-3.5" is NUMBER and "inf" is STRING.
TextTypeInOrder ==
    (inferred # Pending /\ value.t = "str") => inferred = Ok(TextType(value.s))

JSONKinds == {"none", "dict", "list", "str", "int", "float", "bool"}

NumberType(v) ==
    IF v.t = "int" THEN "INTEGER"
    ELSE IF is_integer(v) THEN "INTEGER"
    ELSE "NUMBER"

\* C9: infer_json_type returns a type for every value that is None, a
\* mapping, a sequence, text, a native number (integer or floating) or a
\* native boolean, and raises only for values of none of these kinds; an
\* integral native number gives INTEGER, a non-integral one NUMBER.
EveryJSONKindInferred ==
    inferred # Pending
        => /\ inferred.ok <=> value.t \in JSONKinds
           /\ value.t \in {"int", "float"} => inferred = Ok(NumberType(value))

(***************************************************************************)
(* Properties of the path operations (SpecPath)                            *)
(***************************************************************************)
\* C10: split/append inverse: for every JSONPath p and every k with
\* 1 <= |k| <= number of segments of p, taking (a, r) = p.split(k) and then
\* appending r to a leaves a equal to p.
SplitAppendInverse ==
    (op # "new" /\ Abs(at) \in 1..Len(Structure(self)))
        => /\ op \in {"split", "appended"}
           /\ op = "appended" => PathEq(first, self)

\* the canonical texts: an anchor, dotted keys, [n] indices and slices with
\* parts omitted, none with a component that could be left out
CanonicalTexts ==
    TextsOf(Pieces, MaxSegs)
        \cup {t \o q : t \in TextsOf(Pieces, MaxSegs),
                       q \in {SliceFrom2, SliceBy2, Slice1To5By2}}

\* C11: round trip of path text: for every canonical JSONPath string s,
\* rendering the parsed segment sequence with string_representation gives
\* back s, and parsing that rendering gives back the same segment sequence.
TextRoundTrip ==
    (op = "rebuilt" /\ self.raw_json_path \in CanonicalTexts)
        => (first.raw_json_path = self.raw_json_path /\ Structure(first) = Structure(self))

\* the bracket opened at position i of s is closed at position j
ClosedAt(s, i, j) == j > i /\ s[j] = "]" /\ \A k \in (i + 1)..(j - 1) : s[k] # "]"

\* s has a bracket that is never closed, or one that holds anything but
\* digits, signs and colons
MalformedBracket(s) ==
    \E i \in 1..Len(s) :
        /\ s[i] = "["
        /\ \/ \A j \in 1..Len(s) : ~ClosedAt(s, i, j)
           \/ \E j \in 1..Len(s) :
                  /\ ClosedAt(s, i, j)
                  /\ \E k \in (i + 1)..(j - 1) : s[k] \notin DigitChars \cup {"-", ":"}

\* C12: constructing a JSONPath from text whose bracket content is
\* malformed ([x], or an unmatched bracket) fails with a syntax error: no
\* JSONPath object comes out of such a text, with the bracket dropped.
MalformedBracketRejected == ~MalformedBracket(self.raw_json_path)

EndsWith(s, q) == Len(s) >= Len(q) /\ SubSeq(s, Len(s) - Len(q) + 1, Len(s)) = q

\* the segment each bracket stands for: an Index when it holds a start and
\* no colon, a Slice with its omitted parts open otherwise
BracketSegments ==
    {<<Idx0, IntSeg(0)>>, <<Idx1, IntSeg(1)>>, <<IdxLast, IntSeg(0 - 1)>>,
     <<SliceTo5, SliceSeg(NoneInt, <<5>>, NoneInt)>>,
     <<Slice0To5, SliceSeg(<<0>>, <<5>>, NoneInt)>>,
     <<SliceFrom2, SliceSeg(<<2>>, NoneInt, NoneInt)>>,
     <<Slice1To0, SliceSeg(<<1>>, <<0>>, NoneInt)>>,
     <<SliceBy2, SliceSeg(NoneInt, NoneInt, <<2>>)>>,
     <<Slice1To5By2, SliceSeg(<<1>>, <<5>>, <<2>>)>>}

Brackets(s) == Cardinality({i \in 1..Len(s) : s[i] = "["})

Subscripts(structure) == Cardinality({i \in 1..Len(structure) : ~IsStr(structure[i])})

\* C13: a bracket holding only a start and no colon becomes an Index
\* segment, and every bracket containing a colon becomes a Slice segment
\* whose omitted parts are open-ended: [:5] is Slice(none, 5, none), [2:] is
\* Slice(2, none, none), [1:0] is Slice(1, 0, none), [::2] is
\* Slice(none, none, 2); consecutive brackets each yield their own segment.
BracketsParsed ==
    ~MalformedBracket(self.raw_json_path)
        => /\ Brackets(self.raw_json_path) = Subscripts(Structure(self))
           /\ \A b \in BracketSegments :
                  EndsWith(self.raw_json_path, b[1]) => Last(Structure(self)) = b[2]

InRange(k, structure) == Abs(k) \in 1..Len(structure)

\* the pair that split returned keeps the anchor and anchors the rest at '@'
PairAnchored ==
    /\ Len(Structure(first)) >= 1 /\ Len(Structure(second)) >= 1
    /\ Structure(first)[1] = Structure(self)[1]
    /\ Structure(second)[1] = StrSeg(At)
    /\ Len(Structure(self)) = 1
           => (Structure(first) = Structure(self) /\ Structure(second) = <<StrSeg(At)>>)

\* C14: JSONPath.split(at) raises IndexError exactly when |at| is outside
\* [1, number of segments]; for every other at, positive or negative, it
\* returns a pair of paths each with at least one segment, the first keeping
\* the original anchor and the second anchored with '@', and for a
\* single-segment path it returns (that segment, '@').
SplitRaisesOutsideRange ==
    /\ op = "split_raised" => ~InRange(at, Structure(self))
    /\ op = "split" => (InRange(at, Structure(self)) /\ PairAnchored)

(***************************************************************************)
(* Properties of a write into an existing container (Spec)                 *)
(***************************************************************************)
\* the parent of the target of the call, read from the tree t
ParentIn(t) == get_item_from_json_path(ParentOf(path0), t)

\* d with the member key set to v and its other members as they were
Upserted(d, new, key, v) ==
    /\ DOMAIN new = DOMAIN d \cup {key}
    /\ new[key] = v
    /\ \A other \in DOMAIN d \ {key} : new[other] = d[other]

\* b is a but for one object in it, whose member key has been set to v
RECURSIVE OneObjectUpserted(_, _, _, _)
OneObjectUpserted(a, b, key, v) ==
    IF IsDict(a) /\ IsDict(b)
    THEN \/ Upserted(a.d, b.d, key, v)
         \/ /\ DOMAIN a.d = DOMAIN b.d
            /\ \E k \in DOMAIN a.d :
                   /\ OneObjectUpserted(a.d[k], b.d[k], key, v)
                   /\ \A other \in DOMAIN a.d \ {k} : a.d[other] = b.d[other]
    ELSE IF IsList(a) /\ IsList(b) /\ Len(a.l) = Len(b.l)
    THEN \E i \in 1..Len(a.l) :
             /\ OneObjectUpserted(a.l[i], b.l[i], key, v)
             /\ \A other \in 1..Len(a.l) : other # i => a.l[other] = b.l[other]
    ELSE FALSE

\* the call writes a string key into an object that exists in the tree
KeyIntoObject ==
    /\ Finished /\ IsStr(Last(Structure(path0)))
    /\ ParentIn(tree0).ok /\ IsDict(ParentIn(tree0).val)

\* C15: writing a string key into an existing object is an upsert that
\* never fails: if the key exists its value is replaced, otherwise the
\* member is added, and every other member of that object and everything
\* else in the tree is left unchanged.
UpsertNeverFails ==
    KeyIntoObject
        => /\ pc = "returned"
           /\ ParentIn(ret).ok /\ IsDict(ParentIn(ret).val)
           /\ Upserted(ParentIn(tree0).val.d, ParentIn(ret).val.d,
                       Last(Structure(path0)).s, item0)
           /\ ret = tree0 \/ OneObjectUpserted(tree0, ret, Last(Structure(path0)).s, item0)

\* a member that exists in an object below the root has been replaced
MemberReplaced ==
    /\ KeyIntoObject /\ pc = "returned"
    /\ Len(Structure(path0)) > 2
    /\ Last(Structure(path0)).s \in DOMAIN ParentIn(tree0).val.d
    /\ ParentIn(tree0).val.d[Last(Structure(path0)).s] # item0

\* the last segment of the call does not fit the kind of its parent, which
\* exists in the tree: an integer key for an object, a string key for an array
KindMismatch ==
    /\ Finished /\ ParentIn(tree0).ok
    /\ \/ IsInt(Last(Structure(path0))) /\ IsDict(ParentIn(tree0).val)
       \/ IsStr(Last(Structure(path0))) /\ IsList(ParentIn(tree0).val)

\* C16: a write whose last segment does not fit the kind of its existing
\* parent is rejected with an error that reaches the caller and is not
\* repaired by auto-vivification: an integer key whose parent is an object
\* and a string key whose parent is an array both fail and leave the tree
\* unchanged.
KindMismatchRejected ==
    KindMismatch => (pc = "raised" /\ depth = 0 /\ tree = tree0)

\* a string key has been refused by an array below the root
KeyRefusedByArray ==
    /\ KindMismatch /\ pc = "raised"
    /\ Len(Structure(path0)) > 2
    /\ IsStr(Last(Structure(path0))) /\ ParentIn(tree0).val # EmptyList

\* C17: JSONPath.append(relative) makes the path's segment sequence equal
\* to its old segments followed by relative's segments without relative's
\* anchor; if relative is not a relative path (its text does not start with
\* '@') append raises an error and leaves both the path's text and its
\* segment sequence unchanged.
AppendExtends ==
    op \in {"extended", "extend_raised"}
        => IF Head(second.raw_json_path) = "@"
           THEN /\ op = "extended"
                /\ Structure(first) = Structure(self) \o Tail(Structure(second))
           ELSE /\ op = "extend_raised"
                /\ first.raw_json_path = self.raw_json_path
                /\ Structure(first) = Structure(self)

\* a relative path of several segments has been appended to one of several
SegmentsAppended ==
    /\ op = "extended"
    /\ Len(Structure(self)) > 1 /\ Len(Structure(second)) > 2

(***************************************************************************)
(* Properties of a write into an existing array (Spec)                     *)
(***************************************************************************)
\* the call writes an integer key into an array that exists in the tree,
\* at the end of a path of Key and Index segments
IndexIntoArray ==
    /\ Finished /\ KeyIndexPath(path0) /\ IsInt(Last(Structure(path0)))
    /\ ParentIn(tree0).ok /\ IsList(ParentIn(tree0).val)

\* b is a with v put at position i (from 0): nothing of a is lost, and its
\* elements keep their order
InsertedAt(a, b, i, v) ==
    /\ Len(b) = Len(a) + 1
    /\ b[i + 1] = v
    /\ \A k \in 1..i : b[k] = a[k]
    /\ \A k \in (i + 1)..Len(a) : b[k + 1] = a[k]

\* the call returned and the array holds item0 at position i
ArrayHolds(i) ==
    /\ pc = "returned"
    /\ ParentIn(ret).ok /\ IsList(ParentIn(ret).val)
    /\ InsertedAt(ParentIn(tree0).val.l, ParentIn(ret).val.l, i, item0)

\* the call raised IndexError and the tree is as it was
IndexRejected == pc = "raised" /\ exc = "IndexError" /\ tree = tree0

\* C18 as stated: writing with an integer key i >= -1 into an existing
\* array of length n appends for i = -1, raises IndexError when i exceeds
\* n + 1, and otherwise inserts the value at position i, the former
\* elements keeping their order.
InsertUpToLengthPlusOne ==
    (IndexIntoArray /\ Last(Structure(path0)).i >= 0 - 1)
        => IF Last(Structure(path0)).i = 0 - 1
           THEN ArrayHolds(Len(ParentIn(tree0).val.l))
           ELSE IF Last(Structure(path0)).i > Len(ParentIn(tree0).val.l) + 1
           THEN IndexRejected
           ELSE ArrayHolds(Last(Structure(path0)).i)

\* C18: writing with an integer key i >= -1 into an existing array of
\* length n appends the value after the last element for i = -1, raises
\* IndexError and leaves the tree unchanged when i exceeds n, and
\* otherwise inserts the value at position i, so that element i is the
\* value, the length is n + 1 and the former elements keep their order.
InsertUpToLength ==
    (IndexIntoArray /\ Last(Structure(path0)).i >= 0 - 1)
        => IF Last(Structure(path0)).i = 0 - 1
           THEN ArrayHolds(Len(ParentIn(tree0).val.l))
           ELSE IF Last(Structure(path0)).i > Len(ParentIn(tree0).val.l)
           THEN IndexRejected
           ELSE ArrayHolds(Last(Structure(path0)).i)

\* a value has been inserted before the last element of an array
InsertedBeforeLast ==
    /\ IndexIntoArray /\ pc = "returned"
    /\ Last(Structure(path0)).i >= 0
    /\ Last(Structure(path0)).i < Len(ParentIn(tree0).val.l)

\* the call writes an index below -1 into an array that exists in the tree
IndexBelowLast == IndexIntoArray /\ Last(Structure(path0)).i < 0 - 1

\* C19 as stated: on a write into an array an index below -1 is not
\* rejected: the write proceeds and the array receives the value.
NegativeIndexProceeds ==
    IndexBelowLast
        => /\ pc = "returned"
           /\ ParentIn(ret).ok /\ IsList(ParentIn(ret).val)
           /\ Len(ParentIn(ret).val.l) = Len(ParentIn(tree0).val.l) + 1

\* C19: on a write into an array an index below -1 is rejected: the call
\* raises IndexError and the tree is left unchanged.
NegativeIndexRejected == IndexBelowLast => IndexRejected

\* an index below -1 has been written into an array that holds an element
NegativeIndexTried == IndexBelowLast /\ Len(ParentIn(tree0).val.l) > 0

(***************************************************************************)
(* Properties of a write that starts without a tree (Spec)                 *)
(***************************************************************************)
\* the call returned a root container of the kind of the second segment
RootCreated ==
    /\ pc = "returned"
    /\ IsList(ret) <=> IsInt(Structure(path0)[2])
    /\ IsStr(Structure(path0)[2]) => IsDict(ret)

\* C20: when the starting tree is None, a write at a single-segment path
\* returns the item itself; otherwise the root container created is an
\* array if and only if the second segment is an Index and an object if it
\* is a Key, and the write succeeds for every path of Key and Index
\* segments.
NoneTreeWriteSucceeds ==
    (Finished /\ tree0 = NoneV)
        => IF Len(Structure(path0)) = 1 THEN pc = "returned" /\ ret = item0
           ELSE KeyIndexPath(path0) => RootCreated

(***************************************************************************)
(* Properties of auto-vivification (Spec)                                  *)
(***************************************************************************)
\* c is the chain of containers of keys around v: an object with the one
\* member key for a Key, an array with one element for an Index
RECURSIVE IsChain(_, _, _)
IsChain(c, keys, v) ==
    IF keys = <<>> THEN c = v
    ELSE IF IsStr(Head(keys))
    THEN /\ IsDict(c) /\ DOMAIN c.d = {Head(keys).s}
         /\ IsChain(c.d[Head(keys).s], Tail(keys), v)
    ELSE /\ IsInt(Head(keys)) /\ IsList(c) /\ Len(c.l) = 1
         /\ IsChain(c.l[1], Tail(keys), v)

\* the path of the first segment below the anchor
FirstBelow(path) ==
    [raw_json_path |-> path.raw_json_path,
     json_path_structure |-> SubSeq(Structure(path), 1, 2)]

\* the call has returned from a path of Key and Index segments of which
\* nothing is in the tree: there is no tree, or there are ancestors to
\* create and the first segment below the anchor cannot be read
AllAbsent ==
    /\ pc = "returned" /\ KeyIndexPath(path0)
    /\ \/ tree0 = NoneV
       \/ /\ Len(Structure(path0)) > 2
          /\ IsDict(tree0) \/ IsList(tree0)
          /\ ~get_item_from_json_path(FirstBelow(path0), tree0).ok

\* the object d has received the member key, which holds the chain of
\* keys around v, and has kept its other members
ChainInObject(d, new, key, keys, v) ==
    /\ DOMAIN new = DOMAIN d \cup {key}
    /\ IsChain(new[key], keys, v)
    /\ \A other \in DOMAIN d \ {key} : new[other] = d[other]

\* the array a has received at position i (from 0) the chain of keys
\* around v, and has kept its elements in their order
ChainInArray(a, b, i, keys, v) ==
    /\ Len(b) = Len(a) + 1
    /\ i \in 0..Len(a)
    /\ IsChain(b[i + 1], keys, v)
    /\ \A k \in 1..i : b[k] = a[k]
    /\ \A k \in (i + 1)..Len(a) : b[k + 1] = a[k]

\* the tree returned is the starting tree with the chain of the path added
ChainAdded(t, new, structure, v) ==
    IF t = NoneV THEN IsChain(new, Tail(structure), v)
    ELSE IF IsDict(t)
    THEN /\ IsStr(structure[2]) /\ IsDict(new)
         /\ ChainInObject(t.d, new.d, structure[2].s, SubSeq(structure, 3, Len(structure)), v)
    ELSE /\ IsInt(structure[2]) /\ IsList(new)
         /\ ChainInArray(t.l, new.l,
                         IF structure[2].i = 0 - 1 THEN Len(t.l) ELSE structure[2].i,
                         SubSeq(structure, 3, Len(structure)), v)

FailedWriteAtomic ==
    pc = "raised" => (tree = tree0 /\ (tree0 # NoneV => json = tree0))

\* a write into a container has failed in a recursive call, after the
\* chain of the missing segments was built
FailedAfterVivification ==
    /\ pc = "raised" /\ depth > 0 /\ exc \in {"IndexError", "ValueError"}
    /\ IsDict(tree0) \/ IsList(tree0)

(***************************************************************************)
(* Properties of the data a write leaves in place (Spec)                   *)
(***************************************************************************)
\* the scalar values held anywhere in the tree t
RECURSIVE Scalars(_)
Scalars(t) ==
    IF IsDict(t) THEN UNION {Scalars(t.d[k]) : k \in DOMAIN t.d}
    ELSE IF IsList(t) THEN UNION {Scalars(t.l[i]) : i \in 1..Len(t.l)}
    ELSE {t}

\* the scalar values of what is read at the target path, none when the
\* target is not in the tree
ScalarsAt(target) == IF target.ok THEN Scalars(target.val) ELSE {}

\* C23: a successful write never discards data that is not at the target
\* path: every scalar value held in the tree before the write, outside of
\* what is read at the target path, is still held in the tree returned; a
\* scalar at a proper ancestor of the target is not replaced by a new
\* container.
OtherDataKept ==
    (pc = "returned" /\ KeyIndexPath(path0) /\ (IsDict(tree0) \/ IsList(tree0)))
        => (Scalars(tree0) \ ScalarsAt(get_item_from_json_path(path0, tree0)))
               \subseteq Scalars(ret)

(***************************************************************************)
(* Properties of the text and the segments of a path (SpecPath)            *)
(***************************************************************************)
\* parsing the text of path gives its segments
TextGivesSegments(path) ==
    path = NoPath \/ _json_path_structure(path.raw_json_path) = path.json_path_structure

\* C24: text and structure of a JSONPath stay consistent: after
\* construction and after append and split operations, parsing the text
\* of each path yields exactly its segment sequence.
TextStructureConsistent ==
    /\ TextGivesSegments(self)
    /\ TextGivesSegments(first)
    /\ TextGivesSegments(second)

=============================================================================
